---- MODULE Spec2Model ----
(***************************************************************************)
(* A model of AutoSQL (src/main.py): the SQL extractor extract_sql_only,   *)
(* the prompt builder / completion client generate_sql_query, the "Ask AI" *)
(* handler, and the flat-file credential store with the login, register    *)
(* and logout handlers.                                                    *)
(*                                                                         *)
(* A Python str is a sequence of one-character strings.  The long fixed    *)
(* blocks of the prompt template are single opaque characters.             *)
(***************************************************************************)
EXTENDS Integers, Sequences, FiniteSets, TLC

VARIABLES
    \* extract_sql_only called on an arbitrary text
    text, ex_pc, ex,
    \* the "Ask AI" handler
    df_columns, question, prompt, req, full_response, sql, steps, rendered, ask_pc,
    \* the credential file, and the sessions
    file, users, logged_in, username, pc, form, outcome,
    \* history: successful registrations, what each page load read, login passwords
    registered, read_ok, login_pw

ex_vars == <<text, ex_pc, ex>>
ask_vars == <<df_columns, question, prompt, req, full_response, sql, steps, rendered, ask_pc>>
auth_vars == <<file, users, logged_in, username, pc, form, outcome, registered, read_ok, login_pw>>
vars == <<ex_vars, ask_vars, auth_vars>>

----------------------------------------------------------------------------
(* Bounds *)

MaxLines == 3
MaxCols == 2
MaxRegs == 3

----------------------------------------------------------------------------
(* Python str primitives *)

LF == "\n"
CR == "\r"
TAB == "\t"

\* the characters str.strip() with no argument removes
Whitespace == {" ", TAB, LF, CR}

\* str.upper(), on the letters of the model's alphabet
Upper(c) ==
    CASE c = "s" -> "S" [] c = "e" -> "E" [] c = "l" -> "L" [] c = "c" -> "C"
      [] c = "t" -> "T" [] c = "w" -> "W" [] c = "i" -> "I" [] c = "h" -> "H"
      [] c = "x" -> "X" [] OTHER -> c

upper(s) == [i \in 1..Len(s) |-> Upper(s[i])]

startswith(s, p) == Len(s) >= Len(p) /\ SubSeq(s, 1, Len(p)) = p

endswith(s, p) == Len(s) >= Len(p) /\ SubSeq(s, Len(s) - Len(p) + 1, Len(s)) = p

RECURSIVE lstrip(_)
lstrip(s) == IF s # <<>> /\ Head(s) \in Whitespace THEN lstrip(Tail(s)) ELSE s

RECURSIVE rstrip(_)
rstrip(s) ==
    IF s # <<>> /\ s[Len(s)] \in Whitespace THEN rstrip(SubSeq(s, 1, Len(s) - 1)) ELSE s

strip(s) == rstrip(lstrip(s))

RECURSIVE rstrip_chars(_, _)
rstrip_chars(s, chars) ==
    IF s # <<>> /\ s[Len(s)] \in chars
    THEN rstrip_chars(SubSeq(s, 1, Len(s) - 1), chars)
    ELSE s

\* sep.join(parts)
RECURSIVE join(_, _)
join(sep, parts) ==
    IF parts = <<>> THEN <<>>
    ELSE IF Len(parts) = 1 THEN parts[1]
    ELSE parts[1] \o sep \o join(sep, Tail(parts))

\* str.splitlines(): a line ends at "\n", "\r" or "\r\n"; the break is dropped
\* and a break at the very end opens no further line
RECURSIVE splitlines_from(_, _, _)
splitlines_from(s, i, cur) ==
    IF i > Len(s) THEN (IF cur = <<>> THEN <<>> ELSE <<cur>>)
    ELSE IF s[i] = CR /\ i < Len(s) /\ s[i + 1] = LF
         THEN <<cur>> \o splitlines_from(s, i + 2, <<>>)
    ELSE IF s[i] \in {LF, CR}
         THEN <<cur>> \o splitlines_from(s, i + 1, <<>>)
    ELSE splitlines_from(s, i + 1, Append(cur, s[i]))

splitlines(s) == splitlines_from(s, 1, <<>>)

----------------------------------------------------------------------------
(* extract_sql_only *)

KW_SELECT == <<"S", "E", "L", "E", "C", "T">>
KW_WITH == <<"W", "I", "T", "H">>

\* (mutant) the keyword test without upper(): case-sensitive
IsTriggerCaseSensitive(line) ==
    startswith(strip(line), KW_SELECT) \/ startswith(strip(line), KW_WITH)

\* (mutant) the keyword test for SELECT alone
IsTriggerSelectOnly(line) == startswith(upper(strip(line)), KW_SELECT)

\* the condition of line 138
IsTriggerLine(line) ==
    startswith(upper(strip(line)), KW_SELECT) \/ startswith(upper(strip(line)), KW_WITH)

\* the condition of line 141
IsTerminated(line) == endswith(strip(line), <<";">>)

\* (mutant) one trailing character dropped, as line[:-1] would
StripOneSemicolon(line) == SubSeq(strip(line), 1, Len(strip(line)) - 1)

\* what line 142 appends
StrippedStatement(line) == rstrip_chars(strip(line), {";"})

\* the state of the loop: capture, sql_lines, whether break was taken, and the
\* numbers of the lines at which capture was set and at which the loop broke
LoopStart == [capture |-> FALSE, sql_lines |-> <<>>, broke |-> FALSE, first |-> 0, stop |-> 0]

\* (mutant) the loop body without the break
LoopBodyNoBreak(st, line, i) ==
    LET capture == st.capture \/ IsTriggerLine(line)
        first == IF ~st.capture /\ capture THEN i ELSE st.first
    IN  IF ~capture THEN st
        ELSE [capture |-> TRUE,
              sql_lines |-> Append(st.sql_lines,
                                   IF IsTerminated(line) THEN StrippedStatement(line)
                                   ELSE strip(line)),
              broke |-> FALSE, first |-> first, stop |-> 0]

\* (mutant) the loop body appending unterminated lines untrimmed
LoopBodyNoStrip(st, line, i) ==
    LET capture == st.capture \/ IsTriggerLine(line)
        first == IF ~st.capture /\ capture THEN i ELSE st.first
    IN  IF ~capture THEN st
        ELSE IF IsTerminated(line)
        THEN [capture |-> TRUE, sql_lines |-> Append(st.sql_lines, StrippedStatement(line)),
              broke |-> TRUE, first |-> first, stop |-> i]
        ELSE [capture |-> TRUE, sql_lines |-> Append(st.sql_lines, line),
              broke |-> FALSE, first |-> first, stop |-> 0]

\* one pass of the body of the for loop, on line number i
LoopBody(st, line, i) ==
    LET capture == st.capture \/ IsTriggerLine(line)
        first == IF ~st.capture /\ capture THEN i ELSE st.first
    IN  IF ~capture THEN st
        ELSE IF IsTerminated(line)
        THEN [capture |-> TRUE, sql_lines |-> Append(st.sql_lines, StrippedStatement(line)),
              broke |-> TRUE, first |-> first, stop |-> i]
        ELSE [capture |-> TRUE, sql_lines |-> Append(st.sql_lines, strip(line)),
              broke |-> FALSE, first |-> first, stop |-> 0]

RECURSIVE Loop(_, _, _)
Loop(lines, i, st) ==
    IF i > Len(lines) \/ st.broke THEN st
    ELSE Loop(lines, i + 1, LoopBody(st, lines[i], i))

ExtractLines(lines) == Loop(lines, 1, LoopStart)

extract_sql_only(t) == join(<<" ">>, ExtractLines(splitlines(t)).sql_lines)

----------------------------------------------------------------------------
(* extract_sql_only on an arbitrary text *)

\* the lines the input texts are made of
LineForms ==
    { <<>>,
      <<"x">>,
      <<"x", ";">>,
      <<";">>,
      <<" ", "S", "E", "L", "E", "C", "T", " ", "x">>,
      <<"s", "e", "l", "e", "c", "t", " ", "x", ";">>,
      <<"S", "e", "l", "e", "c", "t", ";", ";", " ">>,
      <<"W", "I", "T", "H", " ", "x", TAB>>,
      <<"w", "i", "t", "h", " ", "x", ";", " ", ";">>,
      <<"S", "E", "L", "E", "C">>,
      <<"x", " ", "W", "I", "T", "H">> }

LineBreaks == { <<LF>>, <<CR>>, <<CR, LF>> }

\* the lines joined by one kind of line break; an empty last line makes the
\* text end with the break
TextOf(ls, br) == join(br, ls)

Texts ==
    { TextOf(ls, br) :
        ls \in UNION { [1..n -> LineForms] : n \in 0..MaxLines },
        br \in LineBreaks }

ExtractInit ==
    /\ text \in Texts
    /\ ex_pc = "call"
    /\ ex = [lines |-> <<>>, loop |-> LoopStart, result |-> <<>>]

ExtractIdle ==
    /\ text = <<>>
    /\ ex_pc = "off"
    /\ ex = [lines |-> <<>>, loop |-> LoopStart, result |-> <<>>]

\* the call extract_sql_only(text)
ExtractCall ==
    /\ ex_pc = "call"
    /\ ex' = [lines |-> splitlines(text),
              loop |-> ExtractLines(splitlines(text)),
              result |-> extract_sql_only(text)]
    /\ ex_pc' = "returned"
    /\ UNCHANGED text
    /\ UNCHANGED <<ask_vars, auth_vars>>

----------------------------------------------------------------------------
(* generate_sql_query and the "Ask AI" handler *)

\* the fixed blocks of the template, lines 89-93 and 96-117, each one character
PREAMBLE == "<You are an expert SQL assistant ... Table: user_data Columns:>"
EXAMPLES == "<### Examples: ... -- Now your turn:>"
QUESTION_LABEL == <<"Question:", " ">>
CUE == <<"S", "Q", "L", ":">>
ERROR_MARKER == <<"<cross mark>", " ", "E", "r", "r", "o", "r", ":", " ">>
COLUMN_SEP == <<",", " ">>

\* (mutant) the column list joined with a bare comma
ColumnListBareComma(cols) == join(<<",">>, cols)

\* line 210: columns = ", ".join(df.columns)
ColumnList(cols) == join(COLUMN_SEP, cols)

\* the f-string of lines 88-121, before .strip()
Template(columns, q) ==
    <<LF, PREAMBLE, LF>> \o columns \o <<LF, LF, EXAMPLES, LF, LF>>
        \o QUESTION_LABEL \o q \o <<LF>> \o CUE \o <<LF>>

\* lines 88-121
BuildPrompt(columns, q) == strip(Template(columns, q))

\* the header names of the uploaded table
ColNames ==
    { <<"a">>, <<"a", "b">>, <<"b", ",">>, <<" ", "c">>, <<"a", ",", " ", "b">> }

\* pandas keeps the header names of a table distinct
ColumnSeqs ==
    { cs \in UNION { [1..n -> ColNames] : n \in 1..MaxCols } :
        \A i, j \in 1..Len(cs) : cs[i] = cs[j] => i = j }

Questions == { <<>>, <<"q">>, <<"q", " ", "q", LF>>, <<" ">> }

\* the "response" field of a successful reply
Responses ==
    { <<>>,
      <<"x">>,
      <<"x", LF, "S", "E", "L", "E", "C", "T", " ", "x", ";", LF, "x">>,
      <<" ", "s", "e", "l", "e", "c", "t", LF, "x", LF>>,
      <<"w", "i", "t", "h", " ", "x", ";", CR, LF, "S", "E", "L", "E", "C", "T", ";">> }

\* str(e) of the exception caught at line 131
ExcDescs ==
    { <<>>,
      <<"x">>,
      <<"S", "E", "L", "E", "C", "T", " ", "x">>,
      <<"x", CR, "S", "E", "L", "E", "C", "T", " ", "x">>,
      <<"x", LF, "w", "i", "t", "h", " ", "x", ";">> }

AskInit ==
    /\ df_columns = <<>>
    /\ question = <<>>
    /\ prompt = <<>>
    /\ req = "none"
    /\ full_response = <<>>
    /\ sql = <<>>
    /\ steps = <<>>
    /\ rendered = "none"
    /\ ask_pc = "idle"

\* line 213: the button is pressed, with the table and the question of this run
Click ==
    /\ ask_pc \in {"idle", "done"}
    /\ \E cs \in ColumnSeqs, q \in Questions :
          /\ df_columns' = cs
          /\ question' = q
    /\ prompt' = <<>>
    /\ req' = "none"
    /\ full_response' = <<>>
    /\ sql' = <<>>
    /\ steps' = <<>>
    /\ rendered' = "none"
    /\ ask_pc' = "generate"
    /\ UNCHANGED <<ex_vars, auth_vars>>

\* line 215, the request answered: return result.strip()
GenerateOk ==
    /\ ask_pc = "generate"
    /\ prompt' = BuildPrompt(ColumnList(df_columns), question)
    /\ \E r \in Responses : full_response' = strip(r)
    /\ req' = "ok"
    /\ steps' = Append(steps, "request")
    /\ ask_pc' = "extract"
    /\ UNCHANGED <<df_columns, question, sql, rendered>>
    /\ UNCHANGED <<ex_vars, auth_vars>>

\* line 215, the request failed: the except branch of line 131
GenerateFail ==
    /\ ask_pc = "generate"
    /\ prompt' = BuildPrompt(ColumnList(df_columns), question)
    /\ \E d \in ExcDescs : full_response' = ERROR_MARKER \o d
    /\ req' = "failed"
    /\ steps' = Append(steps, "request")
    /\ ask_pc' = "extract"
    /\ UNCHANGED <<df_columns, question, sql, rendered>>
    /\ UNCHANGED <<ex_vars, auth_vars>>

\* line 216
Extract ==
    /\ ask_pc = "extract"
    /\ sql' = extract_sql_only(full_response)
    /\ steps' = Append(steps, "extract")
    /\ ask_pc' = "execute"
    /\ UNCHANGED <<df_columns, question, prompt, req, full_response, rendered>>
    /\ UNCHANGED <<ex_vars, auth_vars>>

\* lines 221-225: the statement ran; an empty statement yields no result set
ExecuteOk ==
    /\ ask_pc = "execute"
    /\ sql # <<>>
    /\ rendered' = "result"
    /\ steps' = Append(steps, "execute")
    /\ ask_pc' = "done"
    /\ UNCHANGED <<df_columns, question, prompt, req, full_response, sql>>
    /\ UNCHANGED <<ex_vars, auth_vars>>

\* (mutant) a failed execution sends the handler back to the request
ExecuteFailRetry ==
    /\ ask_pc = "execute"
    /\ Len(steps) < 6
    /\ rendered' = "none"
    /\ steps' = Append(steps, "execute")
    /\ ask_pc' = "generate"
    /\ UNCHANGED <<df_columns, question, prompt, req, full_response, sql>>
    /\ UNCHANGED <<ex_vars, auth_vars>>

\* lines 226-227: the execution raised, the message is rendered
ExecuteFail ==
    /\ ask_pc = "execute"
    /\ rendered' = "error"
    /\ steps' = Append(steps, "execute")
    /\ ask_pc' = "done"
    /\ UNCHANGED <<df_columns, question, prompt, req, full_response, sql>>
    /\ UNCHANGED <<ex_vars, auth_vars>>

----------------------------------------------------------------------------
(* The credential file and the login, register and logout handlers *)

Sessions == {1, 2}
Usernames == {"alice", "bob"}
Passwords == {"pw1", "pw2"}

\* hashlib.sha256(password.encode()).hexdigest()
hash_password(p) == CASE p = "pw1" -> "sha256:0b14d5" [] p = "pw2" -> "sha256:6cf615"

EmptyDict == [u \in {} |-> "none"]

DictSet(d, k, v) == [x \in DOMAIN d \cup {k} |-> IF x = k THEN v ELSE d[x]]

\* users.json: absent, or holding a JSON document, or open for writing and
\* not yet written (valid = FALSE); writers are the sessions inside save_users,
\* stale those of them under which another session has since written
NoFile == [exists |-> FALSE, valid |-> FALSE, data |-> EmptyDict, writers |-> {}, stale |-> {}]

\* lines 64-68
load_users == IF file.exists THEN file.data ELSE EmptyDict

\* (mutant) the username alone decides
CheckUsernameOnly(us, u, p) == u \in DOMAIN us

\* lines 77-78
check_password(us, u, p) == u \in DOMAIN us /\ us[u] = hash_password(p)

\* what a read of the file finds of the registrations made so far
ReadHolds(d) ==
    \A i \in 1..Len(registered) :
        registered[i][1] \in DOMAIN d /\ d[registered[i][1]] = registered[i][2]

AuthInit ==
    /\ file = NoFile
    /\ users = [s \in Sessions |-> EmptyDict]
    /\ logged_in = [s \in Sessions |-> FALSE]
    /\ username = [s \in Sessions |-> ""]
    /\ pc = [s \in Sessions |-> "idle"]
    /\ form = [s \in Sessions |-> <<>>]
    /\ outcome = [s \in Sessions |-> "none"]
    /\ registered = <<>>
    /\ read_ok = [s \in Sessions |-> TRUE]
    /\ login_pw = [s \in Sessions |-> "none"]

\* lines 155-160: a run of the script starts and reads the file
PageLoad(s) ==
    /\ pc[s] = "idle"
    /\ file.exists => file.valid
    /\ users' = [users EXCEPT ![s] = load_users]
    /\ read_ok' = [read_ok EXCEPT ![s] = ReadHolds(load_users)]
    /\ pc' = [pc EXCEPT ![s] = "loaded"]
    /\ outcome' = [outcome EXCEPT ![s] = "none"]
    /\ UNCHANGED <<file, logged_in, username, form, registered, login_pw>>
    /\ UNCHANGED <<ex_vars, ask_vars>>

\* line 67 on a file another session has open for writing or has left
\* garbled: json.load raises and the run ends
PageLoadError(s) ==
    /\ pc[s] = "idle"
    /\ file.exists /\ ~file.valid
    /\ read_ok' = [read_ok EXCEPT ![s] = (registered = <<>>)]
    /\ outcome' = [outcome EXCEPT ![s] = "load_error"]
    /\ UNCHANGED <<file, users, logged_in, username, pc, form, registered, login_pw>>
    /\ UNCHANGED <<ex_vars, ask_vars>>

\* lines 170-177: the Login button
Login(s) ==
    /\ pc[s] = "loaded"
    /\ ~logged_in[s]
    /\ \E u \in Usernames, p \in Passwords :
          IF check_password(users[s], u, p)
          THEN /\ logged_in' = [logged_in EXCEPT ![s] = TRUE]
               /\ username' = [username EXCEPT ![s] = u]
               /\ login_pw' = [login_pw EXCEPT ![s] = p]
               /\ outcome' = [outcome EXCEPT ![s] = "welcome"]
          ELSE /\ outcome' = [outcome EXCEPT ![s] = "incorrect"]
               /\ UNCHANGED <<logged_in, username, login_pw>>
    /\ pc' = [pc EXCEPT ![s] = "idle"]
    /\ users' = [users EXCEPT ![s] = EmptyDict]
    /\ UNCHANGED <<file, form, registered, read_ok>>
    /\ UNCHANGED <<ex_vars, ask_vars>>

\* lines 182-186 with 81-82: the Register button, the name is taken
RegisterExists(s) ==
    /\ pc[s] = "loaded"
    /\ ~logged_in[s]
    /\ \E u \in Usernames : u \in DOMAIN users[s]
    /\ outcome' = [outcome EXCEPT ![s] = "exists"]
    /\ pc' = [pc EXCEPT ![s] = "idle"]
    /\ users' = [users EXCEPT ![s] = EmptyDict]
    /\ UNCHANGED <<file, logged_in, username, form, registered, read_ok, login_pw>>
    /\ UNCHANGED <<ex_vars, ask_vars>>

\* lines 182-183 with 81-83 and 71: the Register button, the name is free;
\* users is updated and open(USER_FILE, "w") empties the file
RegisterBegin(s) ==
    /\ pc[s] = "loaded"
    /\ ~logged_in[s]
    /\ Len(registered) < MaxRegs
    /\ \E u \in Usernames, p \in Passwords :
          /\ u \notin DOMAIN users[s]
          /\ users' = [users EXCEPT ![s] = DictSet(users[s], u, hash_password(p))]
          /\ form' = [form EXCEPT ![s] = <<u, hash_password(p)>>]
    /\ file' = [exists |-> TRUE, valid |-> FALSE, data |-> EmptyDict,
                writers |-> file.writers \cup {s}, stale |-> {}]
    /\ pc' = [pc EXCEPT ![s] = "saving"]
    /\ UNCHANGED <<logged_in, username, outcome, registered, read_ok, login_pw>>
    /\ UNCHANGED <<ex_vars, ask_vars>>

\* lines 72 and 85: json.dump and the close write the document, True is returned
SaveDump(s) ==
    /\ pc[s] = "saving"
    /\ file' = [exists |-> TRUE, valid |-> TRUE, data |-> users[s],
                writers |-> file.writers \ {s},
                stale |-> (file.stale \cup file.writers) \ {s}]
    /\ registered' = Append(registered, form[s])
    /\ outcome' = [outcome EXCEPT ![s] = "registered"]
    /\ pc' = [pc EXCEPT ![s] = "idle"]
    /\ users' = [users EXCEPT ![s] = EmptyDict]
    /\ form' = [form EXCEPT ![s] = <<>>]
    /\ UNCHANGED <<logged_in, username, read_ok, login_pw>>
    /\ UNCHANGED <<ex_vars, ask_vars>>

\* lines 72 and 85 over a longer document another session wrote meanwhile:
\* the tail of that document stays behind this one and the file is no JSON
SaveDumpGarbled(s) ==
    /\ pc[s] = "saving"
    /\ s \in file.stale
    /\ file' = [exists |-> TRUE, valid |-> FALSE, data |-> EmptyDict,
                writers |-> file.writers \ {s},
                stale |-> (file.stale \cup file.writers) \ {s}]
    /\ registered' = Append(registered, form[s])
    /\ outcome' = [outcome EXCEPT ![s] = "registered"]
    /\ pc' = [pc EXCEPT ![s] = "idle"]
    /\ users' = [users EXCEPT ![s] = EmptyDict]
    /\ form' = [form EXCEPT ![s] = <<>>]
    /\ UNCHANGED <<logged_in, username, read_ok, login_pw>>
    /\ UNCHANGED <<ex_vars, ask_vars>>

\* lines 190-193: the Logout button
Logout(s) ==
    /\ pc[s] = "loaded"
    /\ logged_in[s]
    /\ logged_in' = [logged_in EXCEPT ![s] = FALSE]
    /\ username' = [username EXCEPT ![s] = ""]
    /\ outcome' = [outcome EXCEPT ![s] = "logged_out"]
    /\ pc' = [pc EXCEPT ![s] = "idle"]
    /\ users' = [users EXCEPT ![s] = EmptyDict]
    /\ UNCHANGED <<file, form, registered, read_ok, login_pw>>
    /\ UNCHANGED <<ex_vars, ask_vars>>

\* a run in which no button of lines 170, 182 or 190 is pressed
Render(s) ==
    /\ pc[s] = "loaded"
    /\ pc' = [pc EXCEPT ![s] = "idle"]
    /\ users' = [users EXCEPT ![s] = EmptyDict]
    /\ UNCHANGED <<file, logged_in, username, form, outcome, registered, read_ok, login_pw>>
    /\ UNCHANGED <<ex_vars, ask_vars>>

----------------------------------------------------------------------------
(* Specifications *)

InitExtract == ExtractInit /\ AskInit /\ AuthInit

NextExtract == ExtractCall

\* extract_sql_only applied to every text of Texts
SpecExtract == InitExtract /\ [][NextExtract]_vars

Init == ExtractIdle /\ AskInit /\ AuthInit

Next ==
    \/ Click
    \/ GenerateOk
    \/ GenerateFail
    \/ Extract
    \/ ExecuteOk
    \/ ExecuteFail

\* the "Ask AI" handler, pressed again and again
Spec == Init /\ [][Next]_vars

NextAuth ==
    \E s \in Sessions :
        \/ PageLoad(s)
        \/ PageLoadError(s)
        \/ Login(s)
        \/ RegisterExists(s)
        \/ RegisterBegin(s)
        \/ SaveDump(s)
        \/ SaveDumpGarbled(s)
        \/ Logout(s)
        \/ Render(s)

\* several sessions over the one credential file
SpecAuth == Init /\ [][NextAuth]_vars

\* the steps of one session while no other session runs: the file is then
\* never read or written between an open and its dump
NextSolo ==
    \/ PageLoad(1)
    \/ Login(1)
    \/ RegisterExists(1)
    \/ RegisterBegin(1)
    \/ SaveDump(1)
    \/ Logout(1)
    \/ Render(1)

\* one session alone over the credential file
SpecSolo == Init /\ [][NextSolo]_vars

----------------------------------------------------------------------------
(* What the claims speak of, stated apart from the code of the extractor *)

Min(S) == CHOOSE m \in S : \A x \in S : m <= x
Max(S) == CHOOSE m \in S : \A x \in S : m >= x

\* a line without its leading and trailing whitespace
Trimmed(l) ==
    LET solid == {i \in 1..Len(l) : l[i] \notin Whitespace}
    IN  IF solid = {} THEN <<>> ELSE SubSeq(l, Min(solid), Max(solid))

\* the trimmed line begins with SELECT or WITH, in any letter case
BeginsWithKeyword(l) ==
    \E k \in {KW_SELECT, KW_WITH} :
        /\ Len(Trimmed(l)) >= Len(k)
        /\ \A j \in 1..Len(k) : Trimmed(l)[j] = k[j] \/ Upper(Trimmed(l)[j]) = k[j]

EndsInSemicolon(l) == Trimmed(l) # <<>> /\ Trimmed(l)[Len(Trimmed(l))] = ";"

\* the number of the trigger line, 0 when there is none
TriggerAt(lines) ==
    LET T == {i \in 1..Len(lines) : BeginsWithKeyword(lines[i])}
    IN  IF T = {} THEN 0 ELSE Min(T)

\* the number of the first line from the trigger on that ends in ';', 0 when none
TerminatorAt(lines) ==
    LET f == TriggerAt(lines)
        T == {i \in 1..Len(lines) : f # 0 /\ i >= f /\ EndsInSemicolon(lines[i])}
    IN  IF T = {} THEN 0 ELSE Min(T)

\* s up to its last character that is no ';'
WithoutTrailingSemicolons(s) ==
    SubSeq(s, 1, Max({0} \cup {k \in 1..Len(s) : s[k] # ";"}))

RECURSIVE SpaceJoined(_)
SpaceJoined(parts) ==
    IF parts = <<>> THEN <<>>
    ELSE IF Len(parts) = 1 THEN parts[1]
    ELSE SpaceJoined(SubSeq(parts, 1, Len(parts) - 1)) \o <<" ">> \o parts[Len(parts)]

\* lines a..b, each trimmed
TrimmedLines(lines, a, b) == [i \in 1..(b - a + 1) |-> Trimmed(lines[a + i - 1])]

Lines == splitlines(text)

\* a text whose lines are ls, each ended by a line feed
RECURSIVE Unlines(_)
Unlines(ls) == IF ls = <<>> THEN <<>> ELSE Head(ls) \o <<LF>> \o Unlines(Tail(ls))

Lower(c) ==
    CASE c = "S" -> "s" [] c = "E" -> "e" [] c = "L" -> "l" [] c = "C" -> "c"
      [] c = "T" -> "t" [] c = "W" -> "w" [] c = "I" -> "i" [] c = "H" -> "h"
      [] OTHER -> c

SwapCase(c) == IF Lower(c) # c THEN Lower(c) ELSE Upper(c)

\* the lines with the letters of the trigger keyword recased by F
RecasedTrigger(lines, F(_)) ==
    LET f == TriggerAt(lines)
        l == lines[f]
        p == Min({i \in 1..Len(l) : l[i] \notin Whitespace})
        n == IF Upper(l[p]) = "S" THEN 6 ELSE 4
    IN  [lines EXCEPT ![f] = [i \in 1..Len(l) |-> IF i >= p /\ i < p + n THEN F(l[i]) ELSE l[i]]]

----------------------------------------------------------------------------
(* Claims about extract_sql_only, under SpecExtract *)

\* C1: once capture has started, the first line whose trimmed form ends with
\* ';' is appended with its trailing semicolons stripped and the scan stops
\* there: the result is made of the lines from the trigger to that line and
\* of nothing that follows it.
C1_StopsAtFirstStatement ==
    (ex_pc = "returned" /\ TerminatorAt(Lines) # 0) =>
        LET f == TriggerAt(Lines)
            t == TerminatorAt(Lines)
        IN  /\ ex.loop.stop = t
            /\ ex.result =
                  SpaceJoined(Append(TrimmedLines(Lines, f, t - 1),
                                     WithoutTrailingSemicolons(Trimmed(Lines[t]))))
            /\ ex.result = extract_sql_only(Unlines(SubSeq(Lines, 1, t)))

\* a second statement follows the terminating line
C1_Witness ==
    /\ ex_pc = "returned"
    /\ TerminatorAt(Lines) # 0
    /\ TerminatorAt(Lines) > TriggerAt(Lines)
    /\ \E i \in (TerminatorAt(Lines) + 1)..Len(Lines) :
          BeginsWithKeyword(Lines[i]) /\ EndsInSemicolon(Lines[i])
    /\ ex.result # <<>>

\* C2: the result holds no line break and never ends with ';'.
C2_SingleLineNoTrailingSemicolon ==
    ex_pc = "returned" =>
        /\ \A i \in 1..Len(ex.result) : ex.result[i] \notin {LF, CR}
        /\ ex.result = <<>> \/ ex.result[Len(ex.result)] # ";"

\* a text of several lines whose terminating line ends in two semicolons
C2_Witness ==
    /\ ex_pc = "returned"
    /\ Len(Lines) >= 2
    /\ TerminatorAt(Lines) # 0
    /\ endswith(Trimmed(Lines[TerminatorAt(Lines)]), <<";", ";">>)
    /\ ex.result # <<>>

\* C4: the result is empty exactly when no line, trimmed, begins with SELECT
\* or WITH in any letter case.
C4_EmptyIffNoTrigger ==
    ex_pc = "returned" => (ex.result = <<>> <=> TriggerAt(Lines) = 0)

\* a text with the keyword inside a line and a semicolon, and no trigger line
C4_Witness ==
    /\ ex_pc = "returned"
    /\ TriggerAt(Lines) = 0
    /\ \E i \in 1..Len(Lines) : endswith(Lines[i], KW_WITH)
    /\ \E i \in 1..Len(Lines) : EndsInSemicolon(Lines[i])
    /\ ex.result = <<>>

\* C5: capture starts at the first trigger line, whatever precedes it (lines
\* ending with ';' included) is discarded, and recasing the trigger keyword
\* changes neither the captured lines nor the line at which the scan stops.
C5_StartsAtFirstTrigger ==
    (ex_pc = "returned" /\ TriggerAt(Lines) # 0) =>
        LET f == TriggerAt(Lines)
            t == TerminatorAt(Lines)
            last == IF t = 0 THEN Len(Lines) ELSE t
            recased == { ExtractLines(RecasedTrigger(Lines, Upper)),
                         ExtractLines(RecasedTrigger(Lines, Lower)),
                         ExtractLines(RecasedTrigger(Lines, SwapCase)) }
        IN  /\ ex.loop.first = f
            /\ Len(ex.loop.sql_lines) = last - f + 1
            /\ ex.result = extract_sql_only(Unlines(SubSeq(Lines, f, Len(Lines))))
            /\ \A r \in recased :
                  /\ r.first = ex.loop.first
                  /\ r.stop = ex.loop.stop
                  /\ Len(r.sql_lines) = Len(ex.loop.sql_lines)

\* a line ending with ';' precedes a lower-case trigger line
C5_Witness ==
    /\ ex_pc = "returned"
    /\ TriggerAt(Lines) >= 2
    /\ EndsInSemicolon(Lines[1])
    /\ Lower(Trimmed(Lines[TriggerAt(Lines)])[1]) = Trimmed(Lines[TriggerAt(Lines)])[1]
    /\ ex.loop.first = TriggerAt(Lines)

\* C6: when no line from the trigger on ends with ';', the result is every
\* line from the trigger to the end of the text, trimmed, in order, joined by
\* single spaces.
C6_NoTerminatorTakesAll ==
    (ex_pc = "returned" /\ TriggerAt(Lines) # 0 /\ TerminatorAt(Lines) = 0) =>
        ex.result = SpaceJoined(TrimmedLines(Lines, TriggerAt(Lines), Len(Lines)))

\* a statement over three lines, one of them with whitespace to trim
C6_Witness ==
    /\ ex_pc = "returned"
    /\ TriggerAt(Lines) = 1
    /\ TerminatorAt(Lines) = 0
    /\ Len(Lines) = 3
    /\ \E i \in 1..3 : Lines[i] # Trimmed(Lines[i])
    /\ Len(ex.loop.sql_lines) = 3

----------------------------------------------------------------------------
(* Claims about generate_sql_query and the "Ask AI" handler, under Spec *)

PromptBuilt == ask_pc \in {"extract", "execute", "done"}

\* the column list as it stands in the prompt, between the preamble and the examples
RenderedList(p) ==
    LET e == Min({i \in 1..Len(p) : p[i] = EXAMPLES})
    IN  SubSeq(p, 3, e - 3)

\* s cut at every ", ", from the left
RECURSIVE ListItemsFrom(_, _, _)
ListItemsFrom(s, i, cur) ==
    IF i > Len(s) THEN <<cur>>
    ELSE IF i < Len(s) /\ s[i] = "," /\ s[i + 1] = " "
         THEN <<cur>> \o ListItemsFrom(s, i + 2, <<>>)
    ELSE ListItemsFrom(s, i + 1, Append(cur, s[i]))

ListItems(s) == ListItemsFrom(s, 1, <<>>)

HoldsSeparator(name) ==
    \E i \in 1..(Len(name) - 1) : name[i] = "," /\ name[i + 1] = " "

ColumnsEachOnceInOrder ==
    LET items == ListItems(RenderedList(prompt))
    IN  /\ items = df_columns
        /\ \A i \in 1..Len(df_columns) :
              Cardinality({j \in 1..Len(items) : items[j] = df_columns[i]}) = 1

CueFollowsQuestion == endswith(prompt, QUESTION_LABEL \o question \o <<LF>> \o CUE)

\* C3 as claimed: after a failed request the returned error string yields
\* the empty string from extract_sql_only, whatever the exception says.
C3_ErrorStringYieldsNoSql ==
    (req = "failed" /\ ask_pc \in {"execute", "done"}) => sql = <<>>

\* C7 as claimed: for any column names and any question, the items of the
\* rendered comma-joined list are the column names, each once and in order,
\* and the prompt ends with the question followed by the cue SQL:.
C7_EveryColumnOnceAndCue ==
    PromptBuilt => (ColumnsEachOnceInOrder /\ CueFollowsQuestion)

\* C7 amended: the same for column names that do not hold the separator ", ".
C7_ColumnsWithoutSeparator ==
    (PromptBuilt /\ \A i \in 1..Len(df_columns) : ~HoldsSeparator(df_columns[i])) =>
        (ColumnsEachOnceInOrder /\ CueFollowsQuestion)

\* two columns, one with a comma in its name, and the empty question
C7_Witness ==
    /\ PromptBuilt
    /\ Len(df_columns) = 2
    /\ \A i \in 1..2 : ~HoldsSeparator(df_columns[i])
    /\ \E i \in 1..2 : \E k \in 1..Len(df_columns[i]) : df_columns[i][k] = ","
    /\ question = <<>>

AskSteps == <<"request", "extract", "execute">>

\* C8: one press performs one request, then one extraction, then one
\* execution attempt, none of them twice, and ends with a result or an error
\* message rendered.
C8_OneRequestExtractExecute ==
    /\ Len(steps) <= 3
    /\ steps = SubSeq(AskSteps, 1, Len(steps))
    /\ ask_pc = "done" => (steps = AskSteps /\ rendered \in {"result", "error"})
    /\ rendered # "none" => ask_pc = "done"

\* the request failed, nothing was extracted, the execution failed
C8_Witness ==
    /\ ask_pc = "done"
    /\ req = "failed"
    /\ sql = <<>>
    /\ rendered = "error"
    /\ steps = AskSteps

----------------------------------------------------------------------------
(* Claims about the credential file and the sessions *)

\* C9 as claimed, under SpecAuth: every read of the file made after a
\* successful registration holds that username with the hash then stored, and
\* no username is registered with success twice.
C9_NoCredentialLost ==
    /\ \A s \in Sessions : read_ok[s]
    /\ \A i, j \in 1..Len(registered) : registered[i][1] = registered[j][1] => i = j

====
